---- MODULE Spec2Model ----
(***************************************************************************)
(* Extended Isolation Forest (src/src/lib.rs): Forest::from_slice, the     *)
(* recursive make_node, path_length_recurse, c_factor and Forest::score.   *)
(*                                                                         *)
(* Coordinates are floats whose values are integers (exactly               *)
(* representable); f64 results that are not integers (c_factor, path       *)
(* lengths) are kept in fixed point, in units of 1/Scale.  A float is a    *)
(* record [k, v]: k = "fin" (finite, value v), "nan" or "ninf" (-inf).     *)
(* The random source (rand) is outside the crate: every draw is a          *)
(* nondeterministic choice over a finite grid of the sampled range.        *)
(***************************************************************************)
EXTENDS Integers, Sequences, FiniteSets, TLC

\* ---------------------------------------------------------------- bounds
\* Largest point dimension N (the const generic of Forest<T, N>).
MaxDim == 2
\* Longest training set.
MaxLen == 3
\* Largest n_trees.
MaxTrees == 2
\* Largest explicit max_tree_depth.
MaxDepthOpt == 1
\* Most coordinates in a training set, and in the samples of all trees.
MaxCoords == 4

\* Fixed-point resolution of the non-integer f64 values: units of 1/1000.
Scale == 10 * 10 * 10

\* ------------------------------------------------------------- constants
\* 1e-4, the tolerance of are_equal, as its inverse.
TolInv == 10000
\* 0.5772156649 in units of 1/Scale.
EulerGamma == 577

\* ---------------------------------------------------------------- floats
Fin(x) == [k |-> "fin", v |-> x]
NaN == [k |-> "nan", v |-> 0]
NegInf == [k |-> "ninf", v |-> 0]

Abs(x) == IF x < 0 THEN -x ELSE x

RECURSIVE Pow2(_)
Pow2(e) == IF e <= 0 THEN 1 ELSE 2 * Pow2(e - 1)

RECURSIVE SeqSum(_)
SeqSum(s) == IF s = <<>> THEN 0 ELSE Head(s) + SeqSum(Tail(s))

\* ---------------------------------------------------------------- inputs
\* Coordinate values: negative, zero, two positive values closer than the
\* tolerance (1/20000 < 1e-4), and a positive value far from both.
Values1 == {-2, 0, 20000, 20001, 40000}
\* Coordinate values of points of dimension 2 and more.
ValuesN == {-2, 0, 20000}

CoordValues(d) == IF d <= 1 THEN Values1 ELSE ValuesN

\* [T; N]: the points of dimension d.
Points(d) == [1..d -> CoordValues(d)]

\* Option<usize>
None == [some |-> FALSE, v |-> 0]
Some(x) == [some |-> TRUE, v |-> x]

\* A total order on points, used only to list each training set once:
\* from_slice reads training_data through choose_multiple alone, which draws
\* by random index.
RECURSIVE LexLeq(_, _)
LexLeq(a, b) ==
    IF a = <<>> THEN TRUE
    ELSE IF Head(a) # Head(b) THEN Head(a) < Head(b)
    ELSE LexLeq(Tail(a), Tail(b))

\* Training sets of at most MaxLen points and MaxCoords coordinates.
TrainingSets(d) ==
    UNION { { s \in [1..l -> Points(d)] :
                \A i \in 1..(l - 1) : LexLeq(s[i], s[i + 1]) } :
            l \in {x \in 0..MaxLen : x * d <= MaxCoords} }

\* The options whose samples, over all trees, hold at most MaxCoords
\* coordinates.
ForestOptionsSet(d) ==
    { o \in [ n_trees : 0..MaxTrees,
              sample_size : 0..MaxLen,
              max_tree_depth : {None} \cup {Some(x) : x \in 0..MaxDepthOpt},
              extension_level : 0..MaxDim ] :
        o.n_trees * o.sample_size * d <= MaxCoords }

VARIABLES
    N,                  \* the dimension of the points (const generic N)
    training_data,      \* from_slice's training_data
    options,            \* from_slice's options
    phase,              \* position in from_slice / the forest's life
    result,             \* "none", "Ok", or the Error returned
    max_tree_depth,     \* from_slice's resolved max_tree_depth
    trees,              \* the trees built so far, each a set of nodes
    nodes,              \* the nodes of the tree under construction
    stack,              \* pending make_node calls of that tree
    avg_path_length_c,  \* Forest.avg_path_length_c
    c_calls,            \* arguments c_factor was called with by the last operation
    invalid_draw,       \* Uniform::new was called with low >= high
    last_score,         \* the value the last score call returned
    last_paths          \* its point and the path_length of every tree for it

vars == <<N, training_data, options, phase, result, max_tree_depth, trees,
          nodes, stack, avg_path_length_c, c_calls, invalid_draw, last_score, last_paths>>

\* ------------------------------------------------------------ validation
\* Mutant: the training set must be strictly larger than the sample.
ValidationErrorStrict(len, opts, dim) ==
    IF len <= opts.sample_size \/ dim = 0 THEN "InsufficientTrainingData"
    ELSE IF opts.extension_level > dim - 1 THEN "ExtensionLevelExceedsDimensions"
    ELSE "none"

\* Mutant: the extension level may equal the dimension.
ValidationErrorLevelOffByOne(len, opts, dim) ==
    IF len < opts.sample_size \/ dim = 0 THEN "InsufficientTrainingData"
    ELSE IF opts.extension_level > dim THEN "ExtensionLevelExceedsDimensions"
    ELSE "none"

\* from_slice, the two checks: the second one is evaluated only when the
\* first does not return, so N - 1 is never computed for N = 0.
ValidationError(len, opts, dim) ==
    IF len < opts.sample_size \/ dim = 0 THEN "InsufficientTrainingData"
    ELSE IF opts.extension_level > dim - 1 THEN "ExtensionLevelExceedsDimensions"
    ELSE "none"

RECURSIVE FloorLog2(_)
FloorLog2(x) == IF x <= 1 THEN 0 ELSE 1 + FloorLog2(x \div 2)

\* (x as f64).log2().ceil() as usize.  log2(0) is -inf, its ceil is -inf and
\* the cast saturates to 0; for x >= 1 the logarithm of a power of two is
\* exact and every other one lies strictly between two integers.
CeilLog2(x) ==
    IF x = 0 THEN 0
    ELSE IF Pow2(FloorLog2(x)) = x THEN FloorLog2(x)
    ELSE FloorLog2(x) + 1

\* Mutant: the logarithm is truncated instead of rounded up.
ResolveDepthFloor(opts) ==
    IF opts.max_tree_depth.some THEN opts.max_tree_depth.v
    ELSE FloorLog2(opts.sample_size)

\* from_slice, `let max_tree_depth = ...`
ResolveDepth(opts) ==
    IF opts.max_tree_depth.some THEN opts.max_tree_depth.v
    ELSE CeilLog2(opts.sample_size)

\* ------------------------------------------------------------- are_equal
RECURSIVE TrailingZeros(_)
TrailingZeros(m) ==
    IF m = 0 \/ m % 2 = 1 THEN 0 ELSE 1 + TrailingZeros(m \div 2)

\* Float::integer_decode: (mantissa, exponent, sign) with
\* num = sign * mantissa * 2^exponent.  The decoding is kept up to the
\* normalisation of the mantissa (here the odd part of |num|), which does
\* not change the product.
integer_decode(num) ==
    LET e == TrailingZeros(Abs(num))
    IN  [mantissa |-> Abs(num) \div Pow2(e),
         exponent |-> e,
         sign |-> IF num < 0 THEN -1 ELSE 1]

as_f64(num) ==
    LET d == integer_decode(num)
    IN  d.sign * d.mantissa * Pow2(d.exponent)

\* ((a - b).abs() / a) < 1e-4, by the sign of a:
\*   a > 0: the quotient is |a - b| / a;
\*   a = 0: the quotient is NaN (b = 0) or +inf, and the comparison is false;
\*   a < 0: the quotient is -0.0 or negative, and the comparison is true.
are_equal(a, b) ==
    LET fa == as_f64(a)
        fb == as_f64(b)
    IN  IF fa > 0 THEN Abs(fa - fb) * TolInv < fa
        ELSE IF fa = 0 THEN FALSE
        ELSE TRUE

\* ------------------------------------------------------- split geometry
Left == "Left"
Right == "Right"

\* determinate_direction
determinate_direction(sample, n, p) ==
    LET direction_value ==
            SeqSum([i \in 1..Len(sample) |-> (sample[i] - p[i]) * n[i]])
    IN  IF direction_value <= 0 THEN Left ELSE Right

RECURSIVE SeqMin(_, _)
SeqMin(samples, i) ==
    IF Len(samples) = 1 THEN samples[1][i]
    ELSE LET m == SeqMin(Tail(samples), i)
         IN  IF samples[1][i] < m THEN samples[1][i] ELSE m

RECURSIVE SeqMax(_, _)
SeqMax(samples, i) ==
    IF Len(samples) = 1 THEN samples[1][i]
    ELSE LET m == SeqMax(Tail(samples), i)
         IN  IF samples[1][i] > m THEN samples[1][i] ELSE m

\* make_node, `mins` and `maxs` of a non-empty sample subset
Mins(samples, dim) == [i \in 1..dim |-> SeqMin(samples, i)]
Maxs(samples, dim) == [i \in 1..dim |-> SeqMax(samples, i)]

\* The values a draw may return: a grid over the coordinate values.
Grid == Values1 \cup {-1, 1}

\* rng.sample(Uniform::new(low, high)): a value of [low, high).
UniformDraws(low, high) == {x \in Grid : low <= x /\ x < high}

\* Uniform::new asserts low < high.
UniformValid(low, high) == low < high

\* rng.sample(StandardNormal): a negative or a positive value.
NormalDraws == {-1, 1}

\* make_node: the coordinates whose intercept is sampled
SampledCoords(mins, maxs) ==
    {i \in DOMAIN mins : ~are_equal(mins[i], maxs[i])}

\* make_node, `p`: min_i where are_equal holds, a draw of [min_i, max_i)
\* for the sampled coordinates.
Intercepts(mins, maxs, sampled) ==
    LET choices == [i \in DOMAIN mins |->
                      IF i \in sampled THEN UniformDraws(mins[i], maxs[i])
                      ELSE {mins[i]}]
    IN  {p \in [DOMAIN mins -> UNION {choices[i] : i \in DOMAIN mins}] :
            \A i \in DOMAIN mins : p[i] \in choices[i]}

\* (0..N).choose_multiple(rng, amount): amount distinct indices.
ChooseIndices(dim, amount) ==
    {z \in SUBSET (1..dim) : Cardinality(z) = amount}

\* Mutant: one coordinate more is set to zero.
ZeroCountOneMore(dim, extension_level) ==
    LET d == dim - extension_level IN IF d < 0 \/ d > dim THEN dim ELSE d

\* make_node, N - extension_level - 1 as choose_multiple uses it: the
\* number of indices drawn is at most N (a wrapped difference included).
ZeroCount(dim, extension_level) ==
    LET d == dim - extension_level - 1 IN IF d < 0 THEN dim ELSE d

\* Mutant: samples on the hyperplane are pushed to the right subset as well.
SamplesRightWithTies(samples, n, p) ==
    SelectSeq(samples, LAMBDA s :
        SeqSum([i \in 1..Len(s) |-> (s[i] - p[i]) * n[i]]) >= 0)

\* Mutant: samples on the hyperplane are dropped from the left subset.
SamplesLeftStrict(samples, n, p) ==
    SelectSeq(samples, LAMBDA s :
        SeqSum([i \in 1..Len(s) |-> (s[i] - p[i]) * n[i]]) < 0)

\* make_node, samples_left
SamplesLeft(samples, n, p) ==
    SelectSeq(samples, LAMBDA s : determinate_direction(s, n, p) = Left)

\* make_node, samples_right
SamplesRight(samples, n, p) ==
    SelectSeq(samples, LAMBDA s : determinate_direction(s, n, p) = Right)

\* ----------------------------------------------------------------- nodes
\* A node is a record; `path` is its place in the tree (the sequence of
\* directions from the root).  samples, depth, zeroed and sampled record the
\* arguments and draws of the make_node call that built the node.
ExNode(path, samples, depth) ==
    [path |-> path, kind |-> "Ex", num_samples |-> Len(samples),
     n |-> <<>>, p |-> <<>>,
     samples |-> samples, depth |-> depth, zeroed |-> {}, sampled |-> {}]

InNode(path, samples, depth, n, p, zeroed, sampled) ==
    [path |-> path, kind |-> "In", num_samples |-> 0,
     n |-> n, p |-> p,
     samples |-> samples, depth |-> depth, zeroed |-> zeroed, sampled |-> sampled]

Frame(path, samples, depth) ==
    [path |-> path, samples |-> samples, depth |-> depth]

NodeAt(tree, path) == CHOOSE x \in tree : x.path = path

\* make_node's first test
IsTerminal(samples, depth, cap) == depth >= cap \/ Len(samples) <= 1

\* -------------------------------------------------------------- c_factor
\* ln(x) for the integers the model reaches, in units of 1/Scale.
LnTable == <<0, 693, 1099, 1386, 1609, 1792, 1946, 2079>>

Ln(x) ==
    IF x < 0 THEN NaN
    ELSE IF x = 0 THEN NegInf
    ELSE Fin(LnTable[x])

\* 2.0 * (ln(n - 1) + 0.5772156649) - (2.0 * (n - 1) / n)
\*   n = 0: ln(-1) is NaN, and so is the result;
\*   n = 1: ln(0) is -inf, and so is the result (the second term is 0).
c_factor(n) ==
    LET l == Ln(n - 1)
    IN  IF l.k = "fin"
        THEN Fin(2 * (l.v + EulerGamma) - (2 * (n - 1) * Scale) \div n)
        ELSE l

\* ----------------------------------------------------------- path length
\* Mutant: a leaf of two samples gets no correction either.
RECURSIVE path_length_recurse_guard_two(_, _, _)
path_length_recurse_guard_two(tree, path, values) ==
    LET node == NodeAt(tree, path)
    IN  IF node.kind = "Ex"
        THEN IF node.num_samples <= 2 THEN 0 ELSE c_factor(node.num_samples).v
        ELSE Scale + path_length_recurse_guard_two(tree,
                 Append(path, determinate_direction(values, node.n, node.p)),
                 values)

RECURSIVE path_length_recurse(_, _, _)
path_length_recurse(tree, path, values) ==
    LET node == NodeAt(tree, path)
    IN  IF node.kind = "Ex"
        THEN IF node.num_samples <= 1 THEN 0 ELSE c_factor(node.num_samples).v
        ELSE Scale + path_length_recurse(tree,
                 Append(path, determinate_direction(values, node.n, node.p)),
                 values)

\* The arguments path_length_recurse passes to c_factor.
RECURSIVE PathCFactorCalls(_, _, _)
PathCFactorCalls(tree, path, values) ==
    LET node == NodeAt(tree, path)
    IN  IF node.kind = "Ex"
        THEN IF node.num_samples <= 1 THEN {} ELSE {node.num_samples}
        ELSE PathCFactorCalls(tree,
                 Append(path, determinate_direction(values, node.n, node.p)),
                 values)

\* score, `eh`: the sum of the path lengths over the number of trees;
\* 0.0 / 0.0 is NaN.
MeanPathLength(ts, values) ==
    IF Len(ts) = 0 THEN NaN
    ELSE Fin(SeqSum([t \in 1..Len(ts) |-> path_length_recurse(ts[t], <<>>, values)])
               \div Len(ts))

\* score, 2^(-eh / avg_path_length_c): the result is [k |-> "nan"], or
\* [k |-> "pow2", e] for the number 2^(e / Scale).  eh is never negative, so
\* -eh / -inf is +0.
ScoreValue(eh, c) ==
    IF eh.k = "nan" \/ c.k = "nan" THEN [k |-> "nan", e |-> 0]
    ELSE IF c.k = "ninf" THEN [k |-> "pow2", e |-> 0]
    ELSE [k |-> "pow2", e |-> (-(eh.v * Scale)) \div c.v]

NoScore == [k |-> "none", e |-> 0]

\* Tree::path_length of every tree for one point.
PathLengths(ts, values) ==
    [values |-> values,
     lengths |-> [t \in 1..Len(ts) |-> path_length_recurse(ts[t], <<>>, values)]]

NoPaths == [values |-> <<>>, lengths |-> <<>>]

\* ------------------------------------------------------------------ Init
Init ==
    /\ N \in 0..MaxDim
    /\ training_data \in TrainingSets(N)
    /\ options \in ForestOptionsSet(N)
    /\ phase = "start"
    /\ result = "none"
    /\ max_tree_depth = 0
    /\ trees = <<>>
    /\ nodes = {}
    /\ stack = <<>>
    /\ avg_path_length_c = Fin(0)
    /\ c_calls = {}
    /\ invalid_draw = FALSE
    /\ last_score = NoScore
    /\ last_paths = NoPaths

\* --------------------------------------------------------------- actions
\* from_slice up to the resolution of max_tree_depth.
Validate ==
    /\ phase = "start"
    /\ LET err == ValidationError(Len(training_data), options, N)
       IN  IF err # "none"
           THEN /\ phase' = "failed"
                /\ result' = err
                /\ UNCHANGED max_tree_depth
           ELSE /\ phase' = "trees"
                /\ max_tree_depth' = ResolveDepth(options)
                /\ UNCHANGED result
    /\ UNCHANGED <<N, training_data, options, trees, nodes, stack,
                   avg_path_length_c, c_calls, invalid_draw, last_score, last_paths>>

\* training_data.choose_multiple(rng, sample_size): sample_size elements at
\* distinct indices.  The order of the draw is not modelled (the elements are
\* listed by index): make_node reads a subset only through its length, its
\* minima and maxima and the order-preserving filter into left and right.
ChooseMultiple(data, amount) ==
    { [i \in 1..amount |-> data[f[i]]] :
        f \in { g \in [1..amount -> 1..Len(data)] :
                  \A i, j \in 1..amount : i < j => g[i] < g[j] } }

\* One iteration of the map over 0..n_trees: the draw of tree_sample and the
\* call Tree::new -> make_node(samples, rng, 0, ...).
StartTree ==
    /\ phase = "trees"
    /\ Len(trees) < options.n_trees
    /\ \E tree_sample \in ChooseMultiple(training_data, options.sample_size) :
           stack' = <<Frame(<<>>, tree_sample, 0)>>
    /\ nodes' = {}
    /\ phase' = "node"
    /\ UNCHANGED <<N, training_data, options, result, max_tree_depth, trees,
                   avg_path_length_c, c_calls, invalid_draw, last_score, last_paths>>

\* make_node, the terminal branch.
MakeNodeEx ==
    /\ phase = "node"
    /\ stack # <<>>
    /\ LET f == Head(stack)
       IN  /\ IsTerminal(f.samples, f.depth, max_tree_depth)
           /\ nodes' = nodes \cup {ExNode(f.path, f.samples, f.depth)}
           /\ stack' = Tail(stack)
    /\ UNCHANGED <<N, training_data, options, phase, result, max_tree_depth,
                   trees, avg_path_length_c, c_calls, invalid_draw, last_score, last_paths>>

\* make_node, the splitting branch, when every sampled range is valid: the
\* two recursive calls are pushed, the left one first.
MakeNodeIn ==
    /\ phase = "node"
    /\ stack # <<>>
    /\ LET f == Head(stack)
           mins == Mins(f.samples, N)
           maxs == Maxs(f.samples, N)
           sampled == SampledCoords(mins, maxs)
       IN  /\ ~IsTerminal(f.samples, f.depth, max_tree_depth)
           /\ \A i \in sampled : UniformValid(mins[i], maxs[i])
           /\ \E p \in Intercepts(mins, maxs, sampled),
                 drawn \in [1..N -> NormalDraws],
                 zeroed \in ChooseIndices(N, ZeroCount(N, options.extension_level)) :
                /\ LET n == [i \in 1..N |-> IF i \in zeroed THEN 0 ELSE drawn[i]]
                   IN  /\ nodes' = nodes \cup
                              {InNode(f.path, f.samples, f.depth, n, p, zeroed, sampled)}
                       /\ stack' =
                              <<Frame(Append(f.path, Left),
                                      SamplesLeft(f.samples, n, p), f.depth + 1),
                                Frame(Append(f.path, Right),
                                      SamplesRight(f.samples, n, p), f.depth + 1)>>
                              \o Tail(stack)
    /\ UNCHANGED <<N, training_data, options, phase, result, max_tree_depth,
                   trees, avg_path_length_c, c_calls, invalid_draw, last_score, last_paths>>

\* make_node, the splitting branch, when a coordinate that are_equal does not
\* find equal has min >= max: Uniform::new panics and from_slice unwinds.
MakeNodePanic ==
    /\ phase = "node"
    /\ stack # <<>>
    /\ LET f == Head(stack)
           mins == Mins(f.samples, N)
           maxs == Maxs(f.samples, N)
       IN  /\ ~IsTerminal(f.samples, f.depth, max_tree_depth)
           /\ \E i \in SampledCoords(mins, maxs) : ~UniformValid(mins[i], maxs[i])
    /\ invalid_draw' = TRUE
    /\ phase' = "panicked"
    /\ UNCHANGED <<N, training_data, options, result, max_tree_depth, trees,
                   nodes, stack, avg_path_length_c, c_calls, last_score, last_paths>>

\* Tree::new returns: the tree is collected.
TreeNew ==
    /\ phase = "node"
    /\ stack = <<>>
    /\ trees' = Append(trees, nodes)
    /\ nodes' = {}
    /\ phase' = "trees"
    /\ UNCHANGED <<N, training_data, options, result, max_tree_depth, stack,
                   avg_path_length_c, c_calls, invalid_draw, last_score, last_paths>>

\* from_slice, `Ok(Self { avg_path_length_c: c_factor(sample_size), trees })`
Finish ==
    /\ phase = "trees"
    /\ Len(trees) = options.n_trees
    /\ avg_path_length_c' = c_factor(options.sample_size)
    /\ c_calls' = {options.sample_size}
    /\ result' = "Ok"
    /\ phase' = "ready"
    /\ UNCHANGED <<N, training_data, options, max_tree_depth, trees, nodes,
                   stack, invalid_draw, last_score, last_paths>>

\* Forest::score.  The call reads the forest and writes nothing of it, so a
\* later call reaches the states the first one does: one call is explored.
Score ==
    /\ phase = "ready"
    /\ last_score = NoScore
    /\ \E values \in Points(N) :
          /\ last_score' = ScoreValue(MeanPathLength(trees, values), avg_path_length_c)
          /\ last_paths' = PathLengths(trees, values)
          /\ c_calls' = UNION { PathCFactorCalls(trees[t], <<>>, values) :
                                  t \in 1..Len(trees) }
    /\ UNCHANGED <<N, training_data, options, phase, result, max_tree_depth,
                   trees, nodes, stack, avg_path_length_c, invalid_draw>>

Next ==
    \/ Validate
    \/ StartTree
    \/ MakeNodeEx
    \/ MakeNodeIn
    \/ MakeNodePanic
    \/ TreeNew
    \/ Finish
    \/ Score

Spec == Init /\ [][Next]_vars

\* ---------------------------------------------------------------- claims
\* Every node built so far, in the finished trees and in the one under
\* construction.
AllNodes == nodes \cup UNION {trees[t] : t \in 1..Len(trees)}

\* The make_node calls of a tree: those that returned (its nodes) and those
\* still pending.
Calls(tree, frames) ==
    {Frame(nd.path, nd.samples, nd.depth) : nd \in tree}
        \cup {frames[i] : i \in 1..Len(frames)}

\* Every tree with its pending calls: a finished tree has none.
TreesAndFrames ==
    {<<trees[t], <<>>>> : t \in 1..Len(trees)}
        \cup (IF phase = "node" THEN {<<nodes, stack>>} ELSE {})

Validated == phase \notin {"start", "failed"}

C2_AlwaysExtensionLevelError ==
    (phase # "start" /\ options.extension_level >= N) =>
        result = "ExtensionLevelExceedsDimensions"

\* C2, amended: every call whose extension_level is >= N fails and returns no
\* forest; the error is ExtensionLevelExceedsDimensions when the training set
\* holds at least sample_size points and N > 0, and InsufficientTrainingData
\* (the check made first) otherwise.
C2_ExtensionLevelError ==
    (phase # "start" /\ options.extension_level >= N) =>
        /\ phase = "failed"
        /\ trees = <<>> /\ nodes = {}
        /\ result = IF Len(training_data) < options.sample_size \/ N = 0
                    THEN "InsufficientTrainingData"
                    ELSE "ExtensionLevelExceedsDimensions"

C2_Witness ==
    /\ phase = "failed"
    /\ result = "ExtensionLevelExceedsDimensions"
    /\ options.extension_level = N
    /\ Len(training_data) = options.sample_size

\* C3: every score a forest returned as Ok computes is a number s with
\* 0 < s <= 1: it is 2^x for a finite x <= 0 above the exponent at which an
\* f64 underflows to 0.
C3_ScoreInUnitInterval ==
    last_score.k # "none" =>
        /\ last_score.k = "pow2"
        /\ last_score.e <= 0
        /\ last_score.e > -1074 * Scale

\* a and b are equal within the relative tolerance 1e-4.
WithinTolerance(a, b) == a = b \/ Abs(a - b) * TolInv < Abs(a)

\* C4: tree construction never draws from a range with min_i >= max_i:
\* a coordinate on which the samples of a node agree within the tolerance,
\* whatever its sign, gets min_i without a draw, and from_slice does not fail
\* once validation passed.
C4_NoInvalidRangeDraw ==
    /\ ~invalid_draw
    /\ phase # "panicked"
    /\ \A nd \in AllNodes :
          nd.kind = "In" =>
              \A i \in 1..N :
                  Mins(nd.samples, N)[i] = Maxs(nd.samples, N)[i] =>
                      (i \notin nd.sampled /\ nd.p[i] = Mins(nd.samples, N)[i])

\* C5: from_slice ends, for every validated input, with exactly n_trees
\* trees: every make_node call is one level below its caller, none is deeper
\* than max_tree_depth, and the call never ends without its forest.
C5_BuildCompletes ==
    Validated =>
        /\ phase # "panicked"
        /\ \A tf \in TreesAndFrames :
              \A c \in Calls(tf[1], tf[2]) :
                  /\ c.depth = Len(c.path)
                  /\ c.depth <= max_tree_depth
        /\ Len(trees) <= options.n_trees
        /\ phase = "ready" => Len(trees) = options.n_trees

\* C6: c_factor is never evaluated with an argument below 2, in from_slice
\* or in score.
C6_CFactorArgumentAtLeastTwo ==
    \A n \in c_calls : n >= 2

\* The smallest d with 2^d >= x.
LeastPowerOfTwoExponent(x) ==
    CHOOSE d \in 0..(x + 1) :
        /\ Pow2(d) >= x
        /\ \A d2 \in 0..(d - 1) : Pow2(d2) < x

\* C7: the depth cap is the explicit max_tree_depth when given, and the
\* smallest d with 2^d >= sample_size otherwise; every tree of the call is
\* built with it: no call is deeper, no node splits at it, and a subset of
\* two or more samples becomes a leaf only at it.
C7_DepthCap ==
    Validated =>
        /\ max_tree_depth =
              IF options.max_tree_depth.some THEN options.max_tree_depth.v
              ELSE LeastPowerOfTwoExponent(options.sample_size)
        /\ \A nd \in AllNodes :
              /\ nd.depth <= max_tree_depth
              /\ nd.kind = "In" => nd.depth < max_tree_depth
              /\ (nd.kind = "Ex" /\ nd.num_samples >= 2) => nd.depth = max_tree_depth

C7_Witness ==
    /\ phase = "ready"
    /\ ~options.max_tree_depth.some
    /\ options.sample_size = 3
    /\ max_tree_depth = 2
    /\ \A t \in 1..Len(trees) : \E nd \in trees[t] :
          nd.kind = "Ex" /\ nd.depth = 2 /\ nd.num_samples >= 2
    /\ trees # <<>>

\* C8: at every internal node and coordinate i, p_i is min_i, set without a
\* draw, exactly when min_i and max_i are equal within the relative tolerance
\* 1e-4, and a draw of [min_i, max_i) in every other case, whatever the sign
\* of the values.
C8_InterceptRule ==
    \A nd \in AllNodes :
        nd.kind = "In" =>
            \A i \in 1..N :
                LET lo == Mins(nd.samples, N)[i]
                    hi == Maxs(nd.samples, N)[i]
                IN  IF WithinTolerance(lo, hi)
                    THEN i \notin nd.sampled /\ nd.p[i] = lo
                    ELSE i \in nd.sampled /\ lo <= nd.p[i] /\ nd.p[i] < hi

\* C9: a make_node call returns an external node exactly when its depth is
\* >= max_tree_depth or its subset has at most one sample, with num_samples
\* the subset's length; otherwise an internal node whose left (right) child
\* is the call, one level down, on exactly the samples determinate_direction
\* sends Left (Right).
C9_MakeNodeShape ==
    \A tf \in TreesAndFrames :
        \A nd \in tf[1] :
            /\ nd.kind = "Ex" <=>
                  (nd.depth >= max_tree_depth \/ Len(nd.samples) <= 1)
            /\ nd.kind = "Ex" => nd.num_samples = Len(nd.samples)
            /\ nd.kind = "In" =>
                  \A d \in {Left, Right} :
                      \E c \in Calls(tf[1], tf[2]) :
                          /\ c.path = Append(nd.path, d)
                          /\ c.depth = nd.depth + 1
                          /\ c.samples = SelectSeq(nd.samples, LAMBDA s :
                                 determinate_direction(s, nd.n, nd.p) = d)

C9_Witness ==
    /\ phase = "ready"
    /\ \E t \in 1..Len(trees) : \E nd, l, r \in trees[t] :
          /\ nd.kind = "In"
          /\ l.path = Append(nd.path, Left) /\ l.kind = "Ex" /\ l.num_samples = 2
          /\ r.path = Append(nd.path, Right) /\ r.kind = "Ex" /\ r.num_samples = 1

\* C10: with dimension N and extension level e, N - e - 1 is not negative
\* once validation passed, and every internal node has exactly N - e - 1
\* distinct coordinates of n forced to zero: for e = 0 at most one coordinate
\* of n is not zero, for e = N - 1 none is forced.
C10_ZeroedCoordinates ==
    Validated =>
        /\ N - options.extension_level - 1 >= 0
        /\ \A nd \in AllNodes :
              nd.kind = "In" =>
                  /\ nd.zeroed \subseteq 1..N
                  /\ Cardinality(nd.zeroed) = N - options.extension_level - 1
                  /\ \A i \in nd.zeroed : nd.n[i] = 0
                  /\ options.extension_level = 0 =>
                        Cardinality({i \in 1..N : nd.n[i] # 0}) <= 1
                  /\ options.extension_level = N - 1 => nd.zeroed = {}

C10_Witness ==
    /\ N = 2
    /\ options.extension_level = 0
    /\ \E nd \in AllNodes :
          /\ nd.kind = "In"
          /\ Cardinality(nd.zeroed) = 1
          /\ Cardinality({i \in 1..N : nd.n[i] # 0}) = 1

\* The direction of a point at an internal node: Left when the sum of
\* (point_i - p_i) * n_i is <= 0, Right otherwise.
SideOf(point, nd) ==
    IF SeqSum([i \in 1..Len(point) |-> (point[i] - nd.p[i]) * nd.n[i]]) <= 0
    THEN Left ELSE Right

\* The nodes of a tree on the path of a point: the root, and below every
\* internal node the child on the point's side.
NodesOnPath(tree, point) ==
    { nd \in tree :
        \A k \in 1..Len(nd.path) :
            \E up \in tree :
                /\ up.path = SubSeq(nd.path, 1, k - 1)
                /\ up.kind = "In"
                /\ nd.path[k] = SideOf(point, up) }

\* C11: for every tree and query point, path_length is the number of internal
\* nodes on the path determinate_direction selects plus the correction of the
\* leaf it ends in: 0 for num_samples <= 1, c_factor(num_samples) for
\* num_samples >= 2; it is not negative.
C11_PathLength ==
    last_score.k # "none" =>
        /\ Len(last_paths.lengths) = Len(trees)
        /\ \A t \in 1..Len(trees) :
              LET on == NodesOnPath(trees[t], last_paths.values)
                  leaves == {nd \in on : nd.kind = "Ex"}
                  internal == {nd \in on : nd.kind = "In"}
              IN  /\ Cardinality(leaves) = 1
                  /\ \A leaf \in leaves :
                        /\ leaf.num_samples >= 2 => c_factor(leaf.num_samples).k = "fin"
                        /\ last_paths.lengths[t] =
                              Scale * Cardinality(internal)
                                + (IF leaf.num_samples <= 1 THEN 0
                                   ELSE c_factor(leaf.num_samples).v)
                  /\ last_paths.lengths[t] >= 0

C11_Witness ==
    /\ last_score.k # "none"
    /\ \E t \in 1..Len(trees) :
          /\ \E nd \in NodesOnPath(trees[t], last_paths.values) :
                nd.kind = "Ex" /\ nd.num_samples = 2 /\ nd.depth >= 1
          /\ last_paths.lengths[t] > Scale

RECURSIVE SumNumSamples(_)
SumNumSamples(S) ==
    IF S = {} THEN 0
    ELSE LET x == CHOOSE y \in S : TRUE
         IN  x.num_samples + SumNumSamples(S \ {x})

\* How often a point occurs in a sample subset.
Occurrences(samples, pt) ==
    Cardinality({i \in 1..Len(samples) : samples[i] = pt})

\* C12: in every tree of a built forest the partition neither loses nor
\* duplicates samples: at every internal node the left and right subsets
\* together hold each sample of the node as often as the node does, so their
\* sizes add up to the node's; the num_samples of the external nodes of a
\* tree sum to sample_size, and no external node is deeper than the resolved
\* max_tree_depth.
C12_PartitionPreservesSamples ==
    \A t \in 1..Len(trees) :
        /\ \A nd \in trees[t] :
              nd.kind = "In" =>
                  \E l, r \in trees[t] :
                      /\ l.path = Append(nd.path, Left)
                      /\ r.path = Append(nd.path, Right)
                      /\ Len(l.samples) + Len(r.samples) = Len(nd.samples)
                      /\ \A pt \in Points(N) :
                            Occurrences(l.samples, pt) + Occurrences(r.samples, pt)
                                = Occurrences(nd.samples, pt)
        /\ SumNumSamples({nd \in trees[t] : nd.kind = "Ex"}) = options.sample_size
        /\ \A nd \in trees[t] :
              nd.kind = "Ex" =>
                  /\ nd.num_samples = Len(nd.samples)
                  /\ Len(nd.path) <= max_tree_depth

C12_Witness ==
    /\ phase = "ready"
    /\ options.sample_size = 3
    /\ \E t \in 1..Len(trees) :
          /\ Cardinality({nd \in trees[t] : nd.kind = "Ex" /\ nd.num_samples >= 1}) >= 2
          /\ \E nd \in trees[t] : nd.kind = "Ex" /\ Len(nd.path) = max_tree_depth

====
